---- MODULE Spec2Model ----
(***************************************************************************)
(* Model of engine() in unbabel_cli.py: a batch pipeline that loads a file *)
(* of JSON lines, sorts the records by timestamp, optionally cuts them to  *)
(* a trailing window, filters them by three regular expressions, resamples *)
(* them to one row per minute, forward-fills the empty minutes, computes a *)
(* two-sample rolling mean and prints the last rows.                       *)
(*                                                                         *)
(* Time is counted in ticks; one minute is TicksPerMinute ticks, so that   *)
(* timestamps on and between minute boundaries both occur.  Averages are   *)
(* exact rationals <<numerator, denominator>> in lowest terms.             *)
(***************************************************************************)
EXTENDS Integers, Sequences, FiniteSets, TLC

VARIABLES file, lines, options, pc, df, hist, message, output

vars == <<file, lines, options, pc, df, hist, message, output>>

(***************************************************************************)
(* Bounds of the model.                                                    *)
(***************************************************************************)
TicksPerMinute == 2
MaxTick == 5
MaxRecords == 3
MaxWindow == 2
MaxFilterRecords == 2

Durations == {10, 20}

(***************************************************************************)
(* Strings are sequences of one-character strings.                         *)
(***************************************************************************)
Required == {"timestamp", "duration", "client_name", "source_language", "target_language"}

Wildcard == <<".", "*">>

En == <<"e", "n">>
Fr == <<"f", "r">>
Acme == <<"a", "c">>
Bolt == <<"b">>

(***************************************************************************)
(* Rational numbers in lowest terms.                                       *)
(***************************************************************************)
RECURSIVE Gcd(_, _)
Gcd(a, b) == IF b = 0 THEN a ELSE Gcd(b, a % b)

Rat(n, d) == LET g == Gcd(n, d) IN <<n \div g, d \div g>>

RatAdd(x, y) == Rat(x[1] * y[2] + y[1] * x[2], x[2] * y[2])

RECURSIVE RatSum(_)
RatSum(s) == IF s = <<>> THEN <<0, 1>> ELSE RatAdd(Head(s), RatSum(Tail(s)))

\* mean of a non-empty sequence of rationals
RatMean(s) == LET t == RatSum(s) IN Rat(t[1], t[2] * Len(s))

NaN == <<0, 0>>

(***************************************************************************)
(* str.contains(pat): an unanchored regular-expression search.  The model  *)
(* covers patterns made of literal characters, "." and a postfix "*".      *)
(***************************************************************************)
RECURSIVE Tokens(_)
Tokens(p) ==
    IF p = <<>> THEN <<>>
    ELSE IF Len(p) >= 2 /\ p[2] = "*"
         THEN <<[ch |-> p[1], star |-> TRUE]>> \o Tokens(SubSeq(p, 3, Len(p)))
         ELSE <<[ch |-> p[1], star |-> FALSE]>> \o Tokens(Tail(p))

CharMatch(c, x) == c = "." \/ c = x

RECURSIVE MatchHere(_, _)
MatchHere(t, s) ==
    IF t = <<>> THEN TRUE
    ELSE IF Head(t).star
         THEN \E k \in 0..Len(s) :
                 /\ \A j \in 1..k : CharMatch(Head(t).ch, s[j])
                 /\ MatchHere(Tail(t), SubSeq(s, k + 1, Len(s)))
         ELSE /\ s # <<>>
              /\ CharMatch(Head(t).ch, Head(s))
              /\ MatchHere(Tail(t), Tail(s))

Contains(s, pat) ==
    \E i \in 1..(Len(s) + 1) : MatchHere(Tokens(pat), SubSeq(s, i, Len(s)))

(***************************************************************************)
(* Lines 13-26: load the file and check the columns of the frame.          *)
(***************************************************************************)
Columns(ls) == UNION {ls[i].keys : i \in 1..Len(ls)}

\* a check of the two numeric fields only
SchemaOkTimeAndDuration(ls) == {"timestamp", "duration"} \subseteq Columns(ls)

SchemaOk(ls) == Required \subseteq Columns(ls)

Row(l) == [date |-> l.timestamp, date_temp |-> l.timestamp, duration |-> l.duration,
           client_name |-> l.client_name, source_language |-> l.source_language,
           target_language |-> l.target_language]

Frame(ls) == [i \in 1..Len(ls) |-> Row(ls[i])]

(***************************************************************************)
(* Lines 28-37: index on the date and sort.  sort_values sorts a short    *)
(* frame by insertion, so rows with equal dates keep their input order.    *)
(***************************************************************************)
RECURSIVE InsertRow(_, _)
InsertRow(r, s) ==
    IF s = <<>> THEN <<r>>
    ELSE IF s[Len(s)].date <= r.date THEN Append(s, r)
         ELSE Append(InsertRow(r, SubSeq(s, 1, Len(s) - 1)), s[Len(s)])

\* the frame left in the order of the input lines
Unsorted(s) == s

RECURSIVE SortByDate(_)
SortByDate(s) ==
    IF s = <<>> THEN <<>>
    ELSE InsertRow(s[Len(s)], SortByDate(SubSeq(s, 1, Len(s) - 1)))

(***************************************************************************)
(* Lines 43-49: the trailing-window cutoff with the carry-in record.       *)
(***************************************************************************)
\* the missing timestamp that shift(-1) leaves on the last row; it compares
\* False with every timestamp
NaT == -1

Shifted(s, i) == IF i < Len(s) THEN s[i + 1].date_temp ELSE NaT

\* a cutoff on the record's own timestamp, without the carry-in
NextTimestampOwn(s, i) == s[i].date_temp

NextTimestamp(s, i) ==
    IF s[i].date = s[Len(s)].date THEN s[Len(s)].date_temp ELSE Shifted(s, i)

\* a cutoff one minute too late
CutoffTimeLate(s, w) == s[Len(s)].date - (w - 1) * TicksPerMinute

CutoffTime(s, w) == s[Len(s)].date - w * TicksPerMinute

KeepByCutoff(s, i, w) ==
    LET n == NextTimestamp(s, i)
    IN  n # NaT /\ n > CutoffTime(s, w)

RECURSIVE SelectIdx(_, _, _)
SelectIdx(s, i, w) ==
    IF i > Len(s) THEN <<>>
    ELSE (IF KeepByCutoff(s, i, w) THEN <<s[i]>> ELSE <<>>) \o SelectIdx(s, i + 1, w)

Cutoff(s, w) == IF w # 0 THEN SelectIdx(s, 1, w) ELSE s

(***************************************************************************)
(* Lines 53-57: the three pattern filters.                                 *)
(***************************************************************************)
\* the three filters joined by "or"
MatchesAny(r, o) ==
    \/ Contains(r.source_language, o.source)
    \/ Contains(r.target_language, o.target)
    \/ Contains(r.client_name, o.client)

Matches(r, o) ==
    /\ Contains(r.source_language, o.source)
    /\ Contains(r.target_language, o.target)
    /\ Contains(r.client_name, o.client)

ApplyFilters(s, o) == SelectSeq(s, LAMBDA r : Matches(r, o))

(***************************************************************************)
(* Lines 62-64: resample('1T', label='right').mean().dropna().             *)
(* Bins are closed on the left (the default) and labelled on the right.    *)
(***************************************************************************)
Floor(t) == (t \div TicksPerMinute) * TicksPerMinute

BinLabel(t) == Floor(t) + TicksPerMinute

\* bins closed on the right
InBinRightClosed(t, label) == label - TicksPerMinute < t /\ t <= label

InBin(t, label) == label - TicksPerMinute <= t /\ t < label

DurationsIn(s, label) ==
    LET m == SelectSeq(s, LAMBDA r : InBin(r.date, label))
    IN  [i \in 1..Len(m) |-> <<m[i].duration, 1>>]

BinMean(s, label) ==
    LET ds == DurationsIn(s, label)
    IN  IF ds = <<>> THEN NaN ELSE RatMean(ds)

ResampleMean(s) ==
    IF s = <<>> THEN <<>>
    ELSE LET first == Floor(s[1].date)
             last == BinLabel(s[Len(s)].date)
             n == (last - first) \div TicksPerMinute
         IN  [k \in 1..n |-> [date |-> first + k * TicksPerMinute,
                              duration |-> BinMean(s, first + k * TicksPerMinute)]]

DropNa(s) == SelectSeq(s, LAMBDA r : r.duration # NaN)

(***************************************************************************)
(* Line 65: resample('1T', closed='right').pad(): an upsample onto every   *)
(* minute from the first to the last row, filled from the latest row at or *)
(* before it.                                                              *)
(***************************************************************************)
\* a fill from the next row instead of the previous one
EarliestAtOrAfter(s, t) ==
    LET c == {i \in 1..Len(s) : s[i].date >= t}
    IN  CHOOSE i \in c : \A j \in c : i <= j

LatestAtOrBefore(s, t) ==
    LET c == {i \in 1..Len(s) : s[i].date <= t}
    IN  CHOOSE i \in c : \A j \in c : j <= i

ResamplePad(s) ==
    IF s = <<>> THEN <<>>
    ELSE LET first == s[1].date - TicksPerMinute
             last == s[Len(s)].date
             n == (last - first) \div TicksPerMinute
         IN  [k \in 1..n |->
                 [date |-> first + k * TicksPerMinute,
                  duration |-> s[LatestAtOrBefore(s, first + k * TicksPerMinute)].duration]]

(***************************************************************************)
(* Line 68: rolling(min_periods=1, window=2, center=True).mean().          *)
(***************************************************************************)
RollingWindow == 2
MinPeriods == 1

\* a window of the row and its successor
RollingOffsetForward == RollingWindow \div 2

RollingOffset == (RollingWindow - 1) \div 2

RollingAt(s, i) ==
    LET lo == i + RollingOffset - RollingWindow + 1
        hi == i + RollingOffset
        a == IF lo < 1 THEN 1 ELSE lo
        b == IF hi > Len(s) THEN Len(s) ELSE hi
        w == [j \in 1..(b - a + 1) |-> s[a + j - 1].duration]
    IN  IF Len(w) >= MinPeriods THEN RatMean(w) ELSE NaN

Rolling(s) ==
    [i \in 1..Len(s) |-> [date |-> s[i].date, duration |-> s[i].duration,
                          average_delivery_time |-> RollingAt(s, i)]]

(***************************************************************************)
(* Lines 72-82: keep the average column, the last rows, and print.         *)
(***************************************************************************)
\* the first n rows instead of the last
HeadRows(s, n) == IF n >= Len(s) THEN s ELSE SubSeq(s, 1, n)

\* one row more than asked
TailRowsOneMore(s, n) == IF n + 1 >= Len(s) THEN s ELSE SubSeq(s, Len(s) - n, Len(s))

TailRows(s, n) == IF n >= Len(s) THEN s ELSE SubSeq(s, Len(s) - n + 1, Len(s))

KeepAverage(s) ==
    [i \in 1..Len(s) |-> [date |-> s[i].date,
                          average_delivery_time |-> s[i].average_delivery_time]]

Project(s, w) == IF w # 0 THEN TailRows(KeepAverage(s), w) ELSE KeepAverage(s)

\* engine() from the sorted frame on, as one function of the lines and options
Engine(ls, o) ==
    Project(Rolling(ResamplePad(DropNa(ResampleMean(
        ApplyFilters(Cutoff(SortByDate(Frame(ls)), o.window), o))))), o.window)

(***************************************************************************)
(* Inputs.                                                                 *)
(***************************************************************************)
Line(k, t, d, c, s, g) ==
    [keys |-> k, timestamp |-> t, duration |-> d, client_name |-> c,
     source_language |-> s, target_language |-> g]

SeqsUpTo(S, n) == UNION {[1..m -> S] : m \in 1..n}

Defaults(w) == [window |-> w, client |-> Wildcard, source |-> Wildcard, target |-> Wildcard]

NoHist == [sorted |-> <<>>, cut |-> <<>>, filtered |-> <<>>, means |-> <<>>,
           padded |-> <<>>, averaged |-> <<>>]

Start ==
    /\ pc = "start"
    /\ df = <<>>
    /\ hist = NoHist
    /\ message = ""
    /\ output = <<>>

\* timestamps, duplicates and gaps, with the default patterns
TimeLines == {Line(Required, t, d, Acme, En, Fr) : t \in 0..MaxTick, d \in Durations}

InitTime ==
    /\ file = "ok"
    /\ lines \in SeqsUpTo(TimeLines, MaxRecords)
    /\ options \in {Defaults(w) : w \in 0..MaxWindow}
    /\ Start

\* a window together with a client pattern that the records of one client fail
ClientLines ==
    {Line(Required, t, d, Acme, En, Fr) : t \in 0..MaxTick, d \in Durations}
        \cup {Line(Required, t, 20, Bolt, En, Fr) : t \in 0..MaxTick}

InitWindowFilter ==
    /\ file = "ok"
    /\ lines \in SeqsUpTo(ClientLines, MaxFilterRecords)
    /\ options \in {[Defaults(w) EXCEPT !.client = Acme] : w \in 1..MaxWindow}
    /\ Start

\* the three patterns against records of several clients and languages
Clients == {Acme, Bolt, <<>>}
Langs == {En, Fr}
ClientPatterns == {Wildcard, Acme, <<"c">>}
SourcePatterns == {Wildcard, En}
TargetPatterns == {Wildcard, <<"r">>}

PatternLines ==
    {Line(Required, 0, d, c, s, g) : d \in {10}, c \in Clients, s \in Langs, g \in Langs}

InitPatterns ==
    /\ file = "ok"
    /\ lines \in SeqsUpTo(PatternLines, MaxFilterRecords)
    /\ options \in {[window |-> 0, client |-> c, source |-> s, target |-> g] :
                       c \in ClientPatterns, s \in SourcePatterns, g \in TargetPatterns}
    /\ Start

\* files that are absent, malformed, or whose lines lack fields.  A file whose
\* lines each lack a field while together they expose all five is left out.
KeySets ==
    {Required, Required \ {"duration"}, Required \ {"timestamp"}, {"id"},
     {"timestamp", "duration"}, {"client_name", "source_language", "target_language"}}

SchemaLines == {Line(k, 0, 10, Acme, En, Fr) : k \in KeySets}

InitSchema ==
    /\ file \in {"ok", "absent", "malformed"}
    /\ lines \in {<<>>} \cup SeqsUpTo(SchemaLines, MaxFilterRecords)
    /\ file # "ok" => lines = <<>>
    /\ \/ \E f \in Required : \A i \in 1..Len(lines) : f \notin lines[i].keys
       \/ \A i \in 1..Len(lines) : lines[i].keys = Required
    /\ options = Defaults(0)
    /\ Start

Init == InitTime \/ InitWindowFilter \/ InitPatterns \/ InitSchema

(***************************************************************************)
(* The steps of engine().                                                  *)
(***************************************************************************)
Load ==
    /\ pc = "start"
    /\ IF file = "absent" THEN
          /\ message' = "Can't find that file"
          /\ pc' = "exit"
          /\ df' = df
       ELSE IF file = "malformed" THEN
          /\ message' = "needs to be a text file with json lines"
          /\ pc' = "exit"
          /\ df' = df
       ELSE IF ~SchemaOk(lines) THEN
          /\ message' = "Can't find all the relevant fields"
          /\ pc' = "exit"
          /\ df' = df
       ELSE
          /\ message' = message
          /\ pc' = "loaded"
          /\ df' = Frame(lines)
    /\ UNCHANGED <<file, lines, options, hist, output>>

Sort ==
    /\ pc = "loaded"
    /\ df' = SortByDate(df)
    /\ hist' = [hist EXCEPT !.sorted = df']
    /\ pc' = "sorted"
    /\ UNCHANGED <<file, lines, options, message, output>>

Cut ==
    /\ pc = "sorted"
    /\ df' = Cutoff(df, options.window)
    /\ hist' = [hist EXCEPT !.cut = df']
    /\ pc' = "cut"
    /\ UNCHANGED <<file, lines, options, message, output>>

Filter ==
    /\ pc = "cut"
    /\ df' = ApplyFilters(df, options)
    /\ hist' = [hist EXCEPT !.filtered = df']
    /\ pc' = "filtered"
    /\ UNCHANGED <<file, lines, options, message, output>>

Squash ==
    /\ pc = "filtered"
    /\ df' = DropNa(ResampleMean(df))
    /\ hist' = [hist EXCEPT !.means = df']
    /\ pc' = "squashed"
    /\ UNCHANGED <<file, lines, options, message, output>>

Pad ==
    /\ pc = "squashed"
    /\ df' = ResamplePad(df)
    /\ hist' = [hist EXCEPT !.padded = df']
    /\ pc' = "padded"
    /\ UNCHANGED <<file, lines, options, message, output>>

Average ==
    /\ pc = "padded"
    /\ df' = Rolling(df)
    /\ hist' = [hist EXCEPT !.averaged = df']
    /\ pc' = "averaged"
    /\ UNCHANGED <<file, lines, options, message, output>>

Emit ==
    /\ pc = "averaged"
    /\ df' = Project(df, options.window)
    /\ output' = df'
    /\ pc' = "done"
    /\ UNCHANGED <<file, lines, options, hist, message>>

Next == Load \/ Sort \/ Cut \/ Filter \/ Squash \/ Pad \/ Average \/ Emit

Spec == Init /\ [][Next]_vars

(***************************************************************************)
(* Properties.                                                             *)
(***************************************************************************)
After(stages) == pc \in stages

Windowed == options.window # 0

\* the rows of s at the positions in K, in order
RECURSIVE Pick(_, _, _)
Pick(s, K, i) ==
    IF i > Len(s) THEN <<>>
    ELSE (IF i \in K THEN <<s[i]>> ELSE <<>>) \o Pick(s, K, i + 1)

\* x is the mean of the two rationals a and b
IsMeanOfTwo(x, a, b) == x[2] # 0 /\ x[1] * 2 * a[2] * b[2] = x[2] * (a[1] * b[2] + b[1] * a[2])

RECURSIVE SumDurations(_)
SumDurations(s) == IF s = <<>> THEN 0 ELSE Head(s).duration + SumDurations(Tail(s))

\* x is the mean of the durations of the non-empty sequence of records s
IsMeanOf(x, s) == s # <<>> /\ x[2] # 0 /\ x[1] * Len(s) = x[2] * SumDurations(s)

\* the cutoff of the window, from the sorted unfiltered records
WindowCutoff == hist.sorted[Len(hist.sorted)].date - options.window * TicksPerMinute

AtOrBeforeCutoff == {i \in 1..Len(hist.sorted) : hist.sorted[i].date <= WindowCutoff}

AfterCutoff == {i \in 1..Len(hist.sorted) : hist.sorted[i].date > WindowCutoff}

CarryIn == CHOOSE i \in AtOrBeforeCutoff : \A j \in AtOrBeforeCutoff : j <= i

\* C2: with a window, the cutoff keeps every record after the cutoff, keeps the
\* final record, and keeps of the records at or before the cutoff exactly the
\* chronologically latest one.
C2_CutoffKeepsCarryIn ==
    (After({"cut", "filtered", "squashed", "padded", "averaged", "done"}) /\ Windowed) =>
        /\ Len(hist.sorted) \in AfterCutoff
        /\ hist.cut = Pick(hist.sorted,
                           AfterCutoff \cup (IF AtOrBeforeCutoff = {} THEN {} ELSE {CarryIn}), 1)

C2_Witness ==
    /\ pc = "cut"
    /\ Windowed
    /\ Cardinality(AtOrBeforeCutoff) >= 2
    /\ Len(hist.cut) = Len(hist.sorted) - 1
    /\ hist.cut[1].date <= WindowCutoff
    /\ hist.cut[1] = hist.sorted[CarryIn]

\* C5: the moving average of the first row is its own value and that of every
\* later row is the mean of the row's value and its predecessor's.
C5_MovingAverage ==
    After({"averaged", "done"}) =>
        /\ Len(hist.averaged) = Len(hist.padded)
        /\ \A i \in 1..Len(hist.padded) :
              /\ hist.averaged[i].date = hist.padded[i].date
              /\ IF i = 1
                 THEN hist.averaged[i].average_delivery_time = hist.padded[1].duration
                 ELSE IsMeanOfTwo(hist.averaged[i].average_delivery_time,
                                  hist.padded[i - 1].duration, hist.padded[i].duration)

C5_Witness ==
    /\ pc = "averaged"
    /\ [i \in 1..Len(hist.padded) |-> hist.padded[i].duration]
          = <<(<<10, 1>>), (<<10, 1>>), (<<20, 1>>)>>
    /\ [i \in 1..Len(df) |-> df[i].average_delivery_time]
          = <<(<<10, 1>>), (<<10, 1>>), (<<15, 1>>)>>

\* the records that the bucketing of line 64 puts in the row labelled m
BucketOf(m) == SelectSeq(hist.filtered, LAMBDA r : m - TicksPerMinute <= r.date /\ r.date < m)

Populated == {hist.means[i].date : i \in 1..Len(hist.means)}

\* C6: after the gap fill the series has one row for every minute from the
\* earliest to the latest populated bucket, in ascending order; a populated
\* minute holds the mean of its records and an unpopulated minute the value of
\* the nearest earlier populated bucket.
C6_GapFill ==
    (After({"padded", "averaged", "done"}) /\ hist.means # <<>>) =>
        LET p == hist.padded
            lo == hist.means[1].date
            hi == hist.means[Len(hist.means)].date
        IN  /\ \A m \in Populated : lo <= m /\ m <= hi
            /\ Len(p) = (hi - lo) \div TicksPerMinute + 1
            /\ \A k \in 1..Len(p) : p[k].date = lo + (k - 1) * TicksPerMinute
            /\ \A k \in 1..Len(p) :
                  IF p[k].date \in Populated
                  THEN IsMeanOf(p[k].duration, BucketOf(p[k].date))
                  ELSE /\ BucketOf(p[k].date) = <<>>
                       /\ k > 1
                       /\ p[k].duration = p[k - 1].duration

C6_Witness ==
    /\ pc = "padded"
    /\ Len(hist.means) = 2
    /\ [i \in 1..Len(df) |-> df[i].duration]
          = <<(<<10, 1>>), (<<10, 1>>), (<<20, 1>>)>>
    /\ df[3].date - df[1].date = 2 * TicksPerMinute

\* the smallest minute boundary at or after t
CeilMinute(t) == ((t + TicksPerMinute - 1) \div TicksPerMinute) * TicksPerMinute

RowLabelled(m) == {i \in 1..Len(hist.means) : hist.means[i].date = m}

\* C7 as stated: a record with timestamp in (m - 1 minute, m] is in the row
\* labelled m, whose value is the mean of the records of that interval.
C7_RightClosedBuckets ==
    After({"squashed", "padded", "averaged", "done"}) =>
        \A i \in 1..Len(hist.filtered) :
            LET m == CeilMinute(hist.filtered[i].date)
            IN  \E k \in RowLabelled(m) :
                    IsMeanOf(hist.means[k].duration,
                             SelectSeq(hist.filtered,
                                       LAMBDA r : m - TicksPerMinute < r.date /\ r.date <= m))

\* C7 amended: a record with timestamp in [m - 1 minute, m) is in the row
\* labelled m, so a record on a minute boundary is in the row labelled one
\* minute later; the value of a row is the mean of the durations of all the
\* records of its interval, and every row has such a record.
C7_LeftClosedBuckets ==
    After({"squashed", "padded", "averaged", "done"}) =>
        /\ \A i \in 1..Len(hist.filtered) :
              LET t == hist.filtered[i].date
                  m == CHOOSE b \in 0..(t + TicksPerMinute) :
                          b % TicksPerMinute = 0 /\ b - TicksPerMinute <= t /\ t < b
              IN  /\ Cardinality(RowLabelled(m)) = 1
                  /\ \A k \in RowLabelled(m) : IsMeanOf(hist.means[k].duration, BucketOf(m))
        /\ \A k \in 1..Len(hist.means) : BucketOf(hist.means[k].date) # <<>>

C7_Witness ==
    /\ pc = "squashed"
    /\ Len(hist.filtered) = 3
    /\ hist.filtered[1].date % TicksPerMinute = 0
    /\ hist.filtered[2].date = hist.filtered[1].date + 1
    /\ hist.filtered[3].date = hist.filtered[1].date + TicksPerMinute
    /\ hist.filtered[1].duration # hist.filtered[2].duration
    /\ Len(df) = 2
    /\ df[1].date = hist.filtered[1].date + TicksPerMinute
    /\ df[1].duration = <<15, 1>>

Min(a, b) == IF a <= b THEN a ELSE b

AverageRow(r) == [date |-> r.date, average_delivery_time |-> r.average_delivery_time]

\* C1 as stated: with a window W the output is exactly the last W rows of the
\* moving-average series; without a window it is the full series.
C1_ExactlyLastWRows ==
    pc = "done" =>
        LET a == hist.averaged
            W == options.window
        IN  IF Windowed
            THEN /\ Len(output) = W
                 /\ \A j \in 1..W : output[j] = AverageRow(a[Len(a) - W + j])
            ELSE output = [j \in 1..Len(a) |-> AverageRow(a[j])]

\* C1 amended: with a window W the output is the last min(W, n) rows of the
\* n-row moving-average series, in their order (exactly W rows when n >= W,
\* the whole series when n < W); without a window it is the full series.
C1_LastRowsUpToW ==
    pc = "done" =>
        LET a == hist.averaged
            n == IF Windowed THEN Min(options.window, Len(a)) ELSE Len(a)
        IN  /\ Len(output) = n
            /\ \A j \in 1..n : output[j] = AverageRow(a[Len(a) - n + j])

C1_Witness ==
    /\ pc = "done"
    /\ options.window = 2
    /\ Len(hist.averaged) = 3
    /\ Len(output) = 2
    /\ output[1].date = hist.averaged[2].date
    /\ output[2].date = hist.averaged[3].date
    /\ output[1].average_delivery_time # output[2].average_delivery_time

IsSubstring(p, s) == \E i \in 0..(Len(s) - Len(p)) : SubSeq(s, i + 1, i + Len(p)) = p

\* what a pattern of the model's inputs asks of a field: the wildcard asks
\* nothing, a literal asks to occur in it
PatternHolds(p, s) == p = Wildcard \/ IsSubstring(p, s)

Passes(r) ==
    /\ PatternHolds(options.source, r.source_language)
    /\ PatternHolds(options.target, r.target_language)
    /\ PatternHolds(options.client, r.client_name)

InFiltered(r) == \E i \in 1..Len(hist.filtered) : hist.filtered[i] = r

\* C3 as stated: with a window, the average of the first reported row is the
\* mean of that row's value and the value of the row one minute earlier in the
\* untrimmed gap-filled series.
C3_FirstRowHasPredecessor ==
    (pc = "done" /\ Windowed /\ output # <<>>) =>
        \E k \in 2..Len(hist.padded) :
            /\ hist.padded[k].date = output[1].date
            /\ hist.padded[k - 1].date = output[1].date - TicksPerMinute
            /\ IsMeanOfTwo(output[1].average_delivery_time,
                           hist.padded[k - 1].duration, hist.padded[k].duration)

\* C3 amended: with a window W, when the untrimmed gap-filled series has more
\* than W rows the average of the first reported row is the mean of that row's
\* value and the value of the row one minute earlier; this is so whenever a
\* record at or before the cutoff exists and both the carry-in record and the
\* last record pass the filters.  When the series has at most W rows the first
\* reported row is the first row of the series and its average is its own value.
C3_FirstRowAverage ==
    (pc = "done" /\ Windowed) =>
        LET p == hist.padded
            n == Len(hist.padded)
            W == options.window
        IN  /\ n > W =>
                  /\ output[1].date = p[n - W + 1].date
                  /\ p[n - W].date = output[1].date - TicksPerMinute
                  /\ IsMeanOfTwo(output[1].average_delivery_time,
                                 p[n - W].duration, p[n - W + 1].duration)
            /\ (/\ AtOrBeforeCutoff # {}
                /\ Passes(hist.sorted[CarryIn])
                /\ Passes(hist.sorted[Len(hist.sorted)])) => n > W
            /\ (n <= W /\ n > 0) =>
                  /\ output[1].date = p[1].date
                  /\ output[1].average_delivery_time = p[1].duration

C3_Witness ==
    /\ pc = "done"
    /\ Windowed
    /\ AtOrBeforeCutoff # {}
    /\ Len(hist.padded) > options.window
    /\ Len(output) = options.window
    /\ hist.padded[Len(hist.padded) - options.window].date <= WindowCutoff + TicksPerMinute
    /\ output[1].average_delivery_time
          # hist.padded[Len(hist.padded) - options.window + 1].duration

\* the label of the row that holds a record with timestamp t
RowOf(t) == (t \div TicksPerMinute + 1) * TicksPerMinute

OutputDates == {output[j].date : j \in 1..Len(output)}

\* C4 as stated: with a window, when a carry-in record is retained the row of
\* its bucket is not among the rows output.
C4_CarryInRowDropped ==
    (pc = "done" /\ Windowed /\ AtOrBeforeCutoff # {}) =>
        RowOf(hist.sorted[CarryIn].date) \notin OutputDates

\* C4 amended: with a window, when a carry-in record is retained and some
\* record of the bucket of the last record of the unfiltered series passes the
\* filters (as with the default patterns), the row of the carry-in record's
\* bucket is not among the rows output.
C4_CarryInRowDroppedWhenLastKept ==
    (/\ pc = "done"
     /\ Windowed
     /\ AtOrBeforeCutoff # {}
     /\ \E i \in 1..Len(hist.filtered) :
           RowOf(hist.filtered[i].date) = RowOf(hist.sorted[Len(hist.sorted)].date)) =>
        RowOf(hist.sorted[CarryIn].date) \notin OutputDates

C4_Witness ==
    /\ pc = "done"
    /\ Windowed
    /\ options.client = Acme
    /\ AtOrBeforeCutoff # {}
    /\ InFiltered(hist.sorted[CarryIn])
    /\ InFiltered(hist.sorted[Len(hist.sorted)])
    /\ Len(hist.padded) = Len(output) + 1
    /\ hist.padded[1].date = RowOf(hist.sorted[CarryIn].date)

\* C8: without a window a record is in the filtered frame iff its source
\* language, target language and client name each match their pattern, and
\* with the three default patterns every record is kept.
C8_FilterConjunction ==
    (After({"filtered", "squashed", "padded", "averaged", "done"}) /\ ~Windowed) =>
        /\ hist.filtered =
              SelectSeq(hist.sorted,
                        LAMBDA r : Passes(r))
        /\ (/\ options.source = Wildcard
            /\ options.target = Wildcard
            /\ options.client = Wildcard) => hist.filtered = hist.sorted

C8_Witness ==
    /\ pc = "filtered"
    /\ ~Windowed
    /\ options.client = Acme /\ options.source = En /\ options.target = <<"r">>
    /\ Len(hist.sorted) = 2
    /\ hist.sorted[1].client_name = Bolt
    /\ hist.sorted[1].source_language = En /\ hist.sorted[1].target_language = Fr
    /\ df = <<hist.sorted[2]>>

SchemaMessage == "Can't find all the relevant fields"

MissingField == \E f \in Required : \A i \in 1..Len(lines) : f \notin lines[i].keys

\* C9: when the lines together lack one of the five fields, engine reports the
\* schema error and runs no later step: no frame is sorted, filtered or
\* aggregated and no row is output.
C9_SchemaGate ==
    (file = "ok" /\ MissingField) =>
        /\ pc \in {"start", "exit"}
        /\ pc = "exit" => message = SchemaMessage
        /\ df = <<>>
        /\ hist = NoHist
        /\ output = <<>>

C9_Witness ==
    /\ pc = "exit"
    /\ file = "ok"
    /\ message = SchemaMessage
    /\ Len(lines) = 2
    /\ lines[1].keys \cup lines[2].keys = Required \ {"duration"}

SwapAdjacent(ls, i) ==
    [j \in 1..Len(ls) |-> IF j = i THEN ls[i + 1] ELSE IF j = i + 1 THEN ls[i] ELSE ls[j]]

\* Every ordering of the lines of an input is itself an input, so the output
\* is the same for every permutation iff exchanging two adjacent lines never
\* changes it.
SameAfterSwaps ==
    \A i \in 1..(Len(lines) - 1) : Engine(SwapAdjacent(lines, i), options) = output

\* C10 as stated: the rows output do not depend on the order of the input
\* lines, also when several records share a timestamp.
C10_OrderIndependent == pc = "done" => SameAfterSwaps

TieAtCarryIn ==
    \E i \in AtOrBeforeCutoff : i # CarryIn /\ hist.sorted[i].date = hist.sorted[CarryIn].date

\* C10 amended: the rows output do not depend on the order of the input lines
\* when no window is requested, or when at most one record has the latest
\* timestamp at or before the cutoff; records that share any other timestamp
\* do not matter.
C10_OrderIndependentWithoutTiedCarryIn ==
    (pc = "done" /\ (Windowed => ~TieAtCarryIn)) => SameAfterSwaps

C10_Witness ==
    /\ pc = "done"
    /\ Windowed
    /\ Len(lines) = 3
    /\ lines[1].timestamp > lines[3].timestamp
    /\ lines[2].timestamp = lines[3].timestamp
    /\ lines[2].duration # lines[3].duration
    /\ AtOrBeforeCutoff = {}
    /\ Len(output) = 2

====
